---- MODULE Spec2Model ----
(***************************************************************************)
(* repersist: a persistent React store.  The builder takes a configuration *)
(* (init, actions, storage, storageKey, serialize, deserialize, integrity, *)
(* load) and returns a Provider whose constructor hydrates this.state from *)
(* the storage and whose wrapped actions merge their result into           *)
(* this.state and write the serialized state back (setStateAndSave).       *)
(* Consumer, ActionsConsumer, withStore, withActions, useStore and         *)
(* useActions read this.state and this.actions through React's context.    *)
(*                                                                         *)
(* JavaScript values are records [t, o, n]: t is the kind of value, o the  *)
(* own properties of an object (a function from keys to numbers), n the    *)
(* value of a number.  A text (what the storage holds) is a sequence of    *)
(* lexical tokens [lex, s]; JSON.stringify writes tokens and JSON.parse    *)
(* reads them back or throws.  Object properties are written in the order  *)
(* of KeyOrder.                                                            *)
(***************************************************************************)
EXTENDS Integers, Sequences, FiniteSets, Bags, TLC

\* Largest number an object property holds.
MaxVal == 3
\* Largest number of action invocations suspended at their await.
MaxInflight == 2
\* Largest number of setState updates React holds before it commits them.
MaxQueue == 2
\* Largest number of Provider instances constructed over the same storage.
MaxConstructions == 2

KeyOrder == <<"counter", "version">>
Keys == {KeyOrder[i] : i \in 1..Len(KeyOrder)}
Vals == 0..MaxVal

-----------------------------------------------------------------------------
(* JavaScript values *)

EmptyObj == [k \in {} |-> 0]
Objects == UNION {[K -> Vals] : K \in SUBSET Keys}

Obj(o) == [t |-> "object", o |-> o, n |-> 0]
Num(n) == [t |-> "number", o |-> EmptyObj, n |-> n]
Null == [t |-> "null", o |-> EmptyObj, n |-> 0]
Undefined == [t |-> "undefined", o |-> EmptyObj, n |-> 0]
False == [t |-> "false", o |-> EmptyObj, n |-> 0]
True == [t |-> "true", o |-> EmptyObj, n |-> 0]
EmptyString == [t |-> "string", o |-> EmptyObj, n |-> 0]

\* The falsy values of the model: null, undefined, false, 0 and "".
Falsy == {Null, Undefined, False, Num(0), EmptyString}

\* !v is false.
Truthy(v) == v.t \in {"object", "true"} \/ (v.t = "number" /\ v.n # 0)

\* What a called function did: returned v, or threw.
Return(v) == [threw |-> FALSE, v |-> v]
Throw == [threw |-> TRUE, v |-> Undefined]

\* v.k for a value that is neither null nor undefined: the property, or
\* undefined when there is none.
Get(v, k) == IF v.t = "object" /\ k \in DOMAIN v.o THEN Num(v.o[k]) ELSE Undefined

\* {...a, ...b}: the properties of b over those of a.  Spreading a value that
\* is no object contributes no property.
Assign(a, b) == [k \in DOMAIN a \cup DOMAIN b |-> IF k \in DOMAIN b THEN b[k] ELSE a[k]]
OwnProps(v) == IF v.t = "object" THEN v.o ELSE EmptyObj

-----------------------------------------------------------------------------
(* Texts, JSON.stringify and JSON.parse *)

Punct(s) == [lex |-> "punct", s |-> s]
Word(s) == [lex |-> "word", s |-> s]
StrLit(s) == [lex |-> "string", s |-> s]
NumLit(n) == [lex |-> "number", s |-> ToString(n)]

EmptyText == <<>>

RECURSIVE Members(_, _)
\* The members "k":v of object o for the keys KeyOrder[i..], comma separated.
Members(o, i) ==
  IF i > Len(KeyOrder) THEN <<>>
  ELSE LET k == KeyOrder[i]
           rest == Members(o, i + 1)
       IN IF k \notin DOMAIN o THEN rest
          ELSE <<StrLit(k), Punct(":"), NumLit(o[k])>> \o
               (IF rest = <<>> THEN <<>> ELSE <<Punct(",")>> \o rest)

\* What a serializer returns: a string, or (JSON.stringify(undefined)) the
\* value undefined.
Str(text) == [defined |-> TRUE, text |-> text]
NoStr == [defined |-> FALSE, text |-> EmptyText]

\* JSON.stringify(v).
JSON_stringify(v) ==
  CASE v.t = "object" -> Str(<<Punct("{")>> \o Members(v.o, 1) \o <<Punct("}")>>)
    [] v.t = "number" -> Str(<<NumLit(v.n)>>)
    [] v.t = "null" -> Str(<<Word("null")>>)
    [] v.t = "false" -> Str(<<Word("false")>>)
    [] v.t = "true" -> Str(<<Word("true")>>)
    [] v.t = "string" -> Str(<<StrLit("")>>)
    [] v.t = "undefined" -> NoStr

IsNumLit(tok) == tok.lex = "number" /\ \E n \in Vals : tok.s = ToString(n)
NumOf(tok) == CHOOSE n \in Vals : tok.s = ToString(n)

RECURSIVE ParseMembers(_, _)
\* toks starts at a member; acc holds the members read so far.  A repeated
\* key keeps its last value.
ParseMembers(toks, acc) ==
  IF Len(toks) < 3 THEN Throw
  ELSE IF ~(toks[1].lex = "string" /\ toks[1].s \in Keys) THEN Throw
  ELSE IF toks[2] # Punct(":") \/ ~IsNumLit(toks[3]) THEN Throw
  ELSE LET acc2 == Assign(acc, [k \in {toks[1].s} |-> NumOf(toks[3])])
       IN IF Len(toks) = 3 THEN Return(Obj(acc2))
          ELSE IF toks[4] # Punct(",") THEN Throw
          ELSE ParseMembers(SubSeq(toks, 5, Len(toks)), acc2)

\* JSON.parse(text): the value, or a SyntaxError.
JSON_parse(text) ==
  IF Len(text) = 1 THEN
    CASE text[1] = Word("null") -> Return(Null)
      [] text[1] = Word("false") -> Return(False)
      [] text[1] = Word("true") -> Return(True)
      [] text[1] = StrLit("") -> Return(EmptyString)
      [] IsNumLit(text[1]) -> Return(Num(NumOf(text[1])))
      [] OTHER -> Throw
  ELSE IF Len(text) >= 2 /\ text[1] = Punct("{") /\ text[Len(text)] = Punct("}") THEN
    IF Len(text) = 2 THEN Return(Obj(EmptyObj))
    ELSE ParseMembers(SubSeq(text, 2, Len(text) - 1), EmptyObj)
  ELSE Throw

-----------------------------------------------------------------------------
(* The configuration of the builder *)

\* storage: an object with getItem and setItem (window.localStorage), or null.
StorageOpts == {"localStorage", "null"}
\* init: left out (() => {}), an object, or a factory over the Provider's props.
InitOpts == {"default", "object", "factory"}
\* actions: a mapping of functions, or a factory of such a mapping: one
\* written (setState, props) => ({...}), or one written as the README has it,
\* (props, setState) => ({...}).
ActionsOpts == {"mapping", "factory", "documentedFactory"}
\* deserialize: JSON.parse, or a parser that answers {} where JSON.parse throws.
DeserializeOpts == {"JSON.parse", "safeParse"}
\* integrity: left out (() => true), or s => s.version === 2.
IntegrityOpts == {"default", "version2"}
\* load: left out (identity); a migration that throws on a record with no
\* version and sets version 2 otherwise; a counter of visits,
\* s => ({...s, counter: (s.counter || 0) + 1}); or a loader returning a
\* constant.
LoadOpts ==
  {[kind |-> k, v |-> Undefined] : k \in {"identity", "migrate", "visits"}}
    \cup {[kind |-> "constant", v |-> v] : v \in Falsy}

Props == {[defaultValue |-> v] : v \in {0, 1}}

Configs ==
  [storage : StorageOpts, init : InitOpts, actions : ActionsOpts,
   deserialize : DeserializeOpts, integrity : IntegrityOpts, load : LoadOpts]

\* const init = isFunction(init_) ? init_ : () => init_, applied to props.
init(c, p) ==
  CASE c.init = "default" -> Undefined
    [] c.init = "object" -> Obj([counter |-> 0])
    [] c.init = "factory" -> Obj([counter |-> p.defaultValue])

serialize(c, v) == JSON_stringify(v)

deserialize(c, text) ==
  IF c.deserialize = "JSON.parse" THEN JSON_parse(text)
  ELSE IF JSON_parse(text).threw THEN Return(Obj(EmptyObj)) ELSE JSON_parse(text)

integrity(c, v) ==
  IF c.integrity = "default" THEN Return(True)
  ELSE IF v.t \in {"null", "undefined"} THEN Throw
  ELSE Return(IF Get(v, "version") = Num(2) THEN True ELSE False)

load(c, v) ==
  CASE c.load.kind = "identity" -> Return(v)
    [] c.load.kind = "constant" -> Return(c.load.v)
    [] c.load.kind = "migrate" ->
         IF v.t \in {"null", "undefined"} \/ Get(v, "version") = Undefined THEN Throw
         ELSE Return(Obj(Assign(OwnProps(v), [version |-> 2])))
    [] c.load.kind = "visits" ->
         IF v.t \in {"null", "undefined"} THEN Throw
         ELSE Return(Obj(Assign(OwnProps(v),
                [counter |-> (IF Truthy(Get(v, "counter")) THEN Get(v, "counter").n ELSE 0) + 1])))

-----------------------------------------------------------------------------
(* The storage *)

\* What the storage holds under storageKey: a string, or nothing.
Record(text) == [present |-> TRUE, text |-> text]
NoRecord == [present |-> FALSE, text |-> EmptyText]

\* The calls made on the storage.
GetItem == [op |-> "getItem", text |-> EmptyText]
SetItem(text) == [op |-> "setItem", text |-> text]

\* The calls on a storage that throws: getItem where the storage may not be
\* read, setItem where it is full.
GetItemThrows == [op |-> "getItem throws", text |-> EmptyText]
SetItemThrows(text) == [op |-> "setItem throws", text |-> text]

\* localStorage.setItem stores String(value): a string as it is, the value
\* undefined as the text undefined.
StoredString(s) == IF s.defined THEN s.text ELSE <<Word("undefined")>>

-----------------------------------------------------------------------------
(* The store *)

VARIABLES
  cfg,         \* the options the builder was called with
  record,      \* what the storage holds under storageKey
  hydrations,  \* one entry per Provider constructed: what its constructor
               \* fetched, the branch it took and the state it started with
  props,       \* the props of the Provider
  state,       \* this.state of the Provider
  inflight,    \* the results awaited by the wrapped actions that were invoked
  queue,       \* the setState updates React has not committed yet
  userCallbacks,  \* for each queued update, whether a callback of the caller
               \* was handed to this.setState with it
  actions,     \* this.actions: the number of the Provider whose constructor
               \* created the mapping of wrapped actions, 0 before any
  io,          \* the storage calls made by the last step
  view,        \* what the adapter or the reader called in the last step
               \* handed on
  rejected,    \* the error with which the last step rejected the promise of
               \* a wrapped action's call, towards its caller
  thrown       \* the error the constructor threw in the last step

vars ==
  <<cfg, record, hydrations, props, state, inflight, queue, userCallbacks,
    actions, io, view, rejected, thrown>>

constructed == hydrations # <<>>
hydration == hydrations[Len(hydrations)]

\* A setState payload: an object to merge, or (fn) the updater
\* ({counter}) => ({counter: counter + 1}).
Partial(k, v) == [fn |-> FALSE, o |-> [x \in {k} |-> v]]
Increment == [fn |-> TRUE, o |-> EmptyObj]

\* What an action's call resolves to: a payload, undefined, or a rejection.
Resolved(u) == [kind |-> "value", u |-> u]
ResolvedUndefined == [kind |-> "undefined", u |-> Partial("counter", 0)]
Rejected == [kind |-> "rejected", u |-> Partial("counter", 0)]

\* What an adapter hands on: the mapped state (as the completion of the
\* reading) and the actions; nothing when the step called no adapter.
NoView == [what |-> "nothing", state |-> Return(Undefined), actions |-> 0]

\* The errors a call can be rejected with: the one the action threw, and the
\* TypeError of calling what is no function.
NoError == "none"
ActionError == "Error"
TypeError == "TypeError"
\* What the constructor can throw: the error of storage.setItem, and the error
\* of serialize.
StorageError == "storage error"
SerializeError == "serialize error"

\* Hydrate without the load transform: the deserialized record is the state.
HydrateWithoutLoad(c, rec, p) ==
  LET stored == IF c.storage = "null" THEN NoRecord ELSE rec
      fallback(path) == [fetched |-> stored, path |-> path, initial |-> init(c, p)]
  IN IF ~stored.present \/ stored.text = EmptyText THEN fallback("absent")
     ELSE LET d == deserialize(c, stored.text)
          IN IF d.threw THEN fallback("deserialize")
             ELSE LET i == integrity(c, d.v)
                  IN IF i.threw \/ ~Truthy(i.v) THEN fallback("integrity")
                     ELSE [fetched |-> stored, path |-> "restored", initial |-> d.v]

\* Hydrate with {} in place of init(props) when the storage holds nothing.
HydrateAbsentAsEmpty(c, rec, p) ==
  LET stored == IF c.storage = "null" THEN NoRecord ELSE rec
      fallback(path) == [fetched |-> stored, path |-> path, initial |-> init(c, p)]
  IN IF ~stored.present \/ stored.text = EmptyText
     THEN [fetched |-> stored, path |-> "absent", initial |-> Obj(EmptyObj)]
     ELSE LET d == deserialize(c, stored.text)
          IN IF d.threw THEN fallback("deserialize")
             ELSE LET i == integrity(c, d.v)
                  IN IF i.threw \/ ~Truthy(i.v) THEN fallback("integrity")
                     ELSE LET l == load(c, d.v)
                          IN IF l.threw THEN fallback("load")
                             ELSE [fetched |-> stored, path |-> "restored", initial |-> l.v]

\* Hydrate with a rejected record repaired: the default state merged over it.
HydrateRepairing(c, rec, p) ==
  LET stored == IF c.storage = "null" THEN NoRecord ELSE rec
      fallback(path) == [fetched |-> stored, path |-> path, initial |-> init(c, p)]
  IN IF ~stored.present \/ stored.text = EmptyText THEN fallback("absent")
     ELSE LET d == deserialize(c, stored.text)
          IN IF d.threw THEN fallback("deserialize")
             ELSE LET i == integrity(c, d.v)
                  IN IF i.threw \/ ~Truthy(i.v)
                     THEN [fetched |-> stored, path |-> "integrity",
                           initial |-> Obj(Assign(OwnProps(d.v), OwnProps(init(c, p))))]
                     ELSE LET l == load(c, d.v)
                          IN IF l.threw THEN fallback("load")
                             ELSE [fetched |-> stored, path |-> "restored", initial |-> l.v]

\* The try block of the constructor: the value fetched, the branch that ended
\* it and the resulting this.state.
Hydrate(c, rec, p) ==
  LET stored == IF c.storage = "null" THEN NoRecord ELSE rec
      fallback(path) == [fetched |-> stored, path |-> path, initial |-> init(c, p)]
  IN IF ~stored.present \/ stored.text = EmptyText THEN fallback("absent")
     ELSE LET d == deserialize(c, stored.text)
          IN IF d.threw THEN fallback("deserialize")
             ELSE LET i == integrity(c, d.v)
                  IN IF i.threw \/ ~Truthy(i.v) THEN fallback("integrity")
                     ELSE LET l == load(c, d.v)
                          IN IF l.threw THEN fallback("load")
                             ELSE [fetched |-> stored, path |-> "restored", initial |-> l.v]

\* Save without the storage && guard.
SaveUnguarded(c, rec, s) == Record(StoredString(serialize(c, s)))

\* storage && storage.setItem(storageKey, serialize(this.state))
Save(c, rec, s) ==
  IF c.storage = "null" THEN rec ELSE Record(StoredString(serialize(c, s)))

\* The calls of an unguarded Save.
SaveCallsUnguarded(c, s) == <<SetItem(StoredString(serialize(c, s)))>>

SaveCalls(c, s) ==
  IF c.storage = "null" THEN <<>> ELSE <<SetItem(StoredString(serialize(c, s)))>>

\* The numbers of a value stay within the model.
InBounds(v) == v.t # "object" \/ \A k \in DOMAIN v.o : v.o[k] \in Vals

\* Construct without the write-back of the initial state.
ConstructWithoutWriteBack(p) ==
  /\ Len(hydrations) < MaxConstructions
  /\ LET h == Hydrate(cfg, record, p)
     IN /\ InBounds(h.initial)
        /\ state' = h.initial
        /\ hydrations' = Append(hydrations, h)
        /\ io' = (IF cfg.storage = "null" THEN <<>> ELSE <<GetItem>>)
  /\ props' = p
  /\ inflight' = EmptyBag
  /\ queue' = <<>>
  /\ userCallbacks' = <<>>
  /\ rejected' = NoError
  /\ actions' = Len(hydrations) + 1
  /\ thrown' = NoError
  /\ view' = NoView
  /\ UNCHANGED <<cfg, record>>

\* Construct writing the default state back, whatever was restored.
ConstructSavingDefault(p) ==
  /\ Len(hydrations) < MaxConstructions
  /\ LET h == Hydrate(cfg, record, p)
     IN /\ InBounds(h.initial)
        /\ state' = h.initial
        /\ hydrations' = Append(hydrations, h)
        /\ record' = Save(cfg, record, init(cfg, p))
        /\ io' = (IF cfg.storage = "null" THEN <<>> ELSE <<GetItem>>)
                   \o SaveCalls(cfg, init(cfg, p))
  /\ props' = p
  /\ inflight' = EmptyBag
  /\ queue' = <<>>
  /\ userCallbacks' = <<>>
  /\ rejected' = NoError
  /\ actions' = Len(hydrations) + 1
  /\ thrown' = NoError
  /\ view' = NoView
  /\ UNCHANGED cfg

\* new Provider(p): hydration, then the write-back of the initial state.  The
\* page starts afresh: nothing is in flight, nothing is queued.
Construct(p) ==
  /\ Len(hydrations) < MaxConstructions
  /\ LET h == Hydrate(cfg, record, p)
     IN /\ InBounds(h.initial)
        /\ state' = h.initial
        /\ hydrations' = Append(hydrations, h)
        /\ record' = Save(cfg, record, h.initial)
        /\ io' = (IF cfg.storage = "null" THEN <<>> ELSE <<GetItem>>)
                   \o SaveCalls(cfg, h.initial)
  /\ props' = p
  /\ inflight' = EmptyBag
  /\ queue' = <<>>
  /\ userCallbacks' = <<>>
  /\ rejected' = NoError
  /\ actions' = Len(hydrations) + 1
  /\ thrown' = NoError
  /\ view' = NoView
  /\ UNCHANGED cfg

\* ApplyUpdate replacing the state by the partial state.
ApplyUpdateReplacing(s, u) ==
  LET partial == IF u.fn THEN [counter |-> Get(s, "counter").n + 1] ELSE u.o
  IN Obj(partial)

\* React's merge of one update into the state: an updater is called with the
\* state, and the partial state is assigned over a copy of the state.
ApplyUpdate(s, u) ==
  LET partial == IF u.fn THEN [counter |-> Get(s, "counter").n + 1] ELSE u.o
  IN Obj(Assign(OwnProps(s), partial))

\* ProcessUpdates running every update on the state the batch started from: the
\* last one wins.
ProcessUpdatesOnSnapshot(s, q) ==
  IF q = <<>> THEN s ELSE ApplyUpdate(s, q[Len(q)])

RECURSIVE ProcessUpdates(_, _)
ProcessUpdates(s, q) ==
  IF q = <<>> THEN s ELSE ProcessUpdates(ApplyUpdate(s, Head(q)), Tail(q))

\* The increments not yet committed.
PendingIncrements ==
  CopiesIn(Resolved(Increment), inflight)
    + Cardinality({i \in 1..Len(queue) : queue[i] = Increment})

\* The payloads not yet committed.
Pending ==
  {r.u : r \in {x \in BagToSet(inflight) : x.kind = "value"}}
    \cup {queue[i] : i \in 1..Len(queue)}

\* The largest counter the pending payloads can lead to.
CounterCeiling ==
  LET values == {Get(state, "counter").n}
                  \cup {u.o["counter"] : u \in {x \in Pending : ~x.fn /\ "counter" \in DOMAIN x.o}}
  IN (CHOOSE m \in values : \A x \in values : x <= m) + PendingIncrements

\* An updater runs on an object that has a counter, and stays within MaxVal.
CanIncrement ==
  /\ Get(state, "counter") # Undefined
  /\ CounterCeiling < MaxVal

\* A counter that is set stays within MaxVal under the pending increments.
CanAssign(u) ==
  (~u.fn /\ "counter" \in DOMAIN u.o) => u.o["counter"] + PendingIncrements <= MaxVal

\* this.setStateAndSave(u): this.setState(u, callback) hands the update to
\* React with the callback that saves the state, and with no other.
setStateAndSave(u) ==
  /\ Len(queue) < MaxQueue
  /\ queue' = Append(queue, u)
  /\ userCallbacks' = Append(userCallbacks, FALSE)

\* A wrapped action is called and its action returns: the wrapper is suspended
\* at its await.
Call(r) ==
  /\ constructed
  /\ BagCardinality(inflight) < MaxInflight
  /\ inflight' = inflight (+) SetToBag({r})
  /\ io' = <<>>
  /\ rejected' = NoError
  /\ thrown' = NoError
  /\ view' = NoView
  /\ UNCHANGED <<cfg, actions, record, hydrations, props, state, queue,
                 userCallbacks>>

\* typeSearch(search) { return { search } }: the action returns a partial state.
Assignment(k, v) == CanAssign(Partial(k, v)) /\ Call(Resolved(Partial(k, v)))

\* increment() { return ({ counter }) => ({ counter: counter + 1 }) }
IncrementAction == CanIncrement /\ Call(Resolved(Increment))

\* An action that returns nothing.
NoResult == Call(ResolvedUndefined)

\* An action of a factory that calls the injected setter and returns nothing.
SetterAction(u) ==
  /\ constructed
  /\ cfg.actions = "factory"
  /\ IF u = Increment THEN CanIncrement ELSE CanAssign(u)
  /\ BagCardinality(inflight) < MaxInflight
  /\ setStateAndSave(u)
  /\ inflight' = inflight (+) SetToBag({ResolvedUndefined})
  /\ io' = <<>>
  /\ rejected' = NoError
  /\ thrown' = NoError
  /\ view' = NoView
  /\ UNCHANGED <<cfg, actions, record, hydrations, props, state>>

\* Resume saving plain objects only: an updater function is dropped.
ResumeObjectsOnly(r) ==
  /\ BagIn(r, inflight)
  /\ inflight' = inflight (-) SetToBag({r})
  /\ IF r.kind = "value" /\ ~r.u.fn THEN setStateAndSave(r.u)
     ELSE UNCHANGED <<queue, userCallbacks>>
  /\ io' = <<>>
  /\ rejected' = (IF r.kind = "rejected" THEN ActionError ELSE NoError)
  /\ thrown' = NoError
  /\ view' = NoView
  /\ UNCHANGED <<cfg, actions, record, hydrations, props, state>>

\* Resume without the test of newState: undefined is handed to setState too,
\* whose callback then writes the record.
ResumeSavingUndefined(r) ==
  /\ BagIn(r, inflight)
  /\ inflight' = inflight (-) SetToBag({r})
  /\ IF r.kind # "rejected" THEN setStateAndSave(r.u)
     ELSE UNCHANGED <<queue, userCallbacks>>
  /\ io' = <<>>
  /\ rejected' = (IF r.kind = "rejected" THEN ActionError ELSE NoError)
  /\ thrown' = NoError
  /\ view' = NoView
  /\ UNCHANGED <<cfg, actions, record, hydrations, props, state>>

\* Resume catching what the action threw: the call is fulfilled.
ResumeCatching(r) ==
  /\ BagIn(r, inflight)
  /\ inflight' = inflight (-) SetToBag({r})
  /\ IF r.kind = "value" THEN setStateAndSave(r.u)
     ELSE UNCHANGED <<queue, userCallbacks>>
  /\ io' = <<>>
  /\ rejected' = NoError
  /\ thrown' = NoError
  /\ view' = NoView
  /\ UNCHANGED <<cfg, actions, record, hydrations, props, state>>

\* The wrapper resumes from its await.  With newState it calls
\* setStateAndSave(newState) unless newState is undefined; when the awaited
\* promise was rejected, the await throws, nothing catches it and the call is
\* rejected.
Resume(r) ==
  /\ BagIn(r, inflight)
  /\ inflight' = inflight (-) SetToBag({r})
  /\ IF r.kind = "value" THEN setStateAndSave(r.u)
     ELSE UNCHANGED <<queue, userCallbacks>>
  /\ io' = <<>>
  /\ rejected' = (IF r.kind = "rejected" THEN ActionError ELSE NoError)
  /\ thrown' = NoError
  /\ view' = NoView
  /\ UNCHANGED <<cfg, actions, record, hydrations, props, state>>

RECURSIVE Callbacks(_, _, _)
\* The storage calls of the callbacks of n committed updates: each one is
\* storage && storage.setItem(storageKey, serialize(this.state)).
Callbacks(c, s, n) == IF n = 0 THEN <<>> ELSE SaveCalls(c, s) \o Callbacks(c, s, n - 1)

\* The call of a callback of the caller.
UserCallback == [op |-> "callback", text |-> EmptyText]

\* The calls of the callbacks that were handed to this.setState with the
\* committed updates.
UserCallbackCalls(given) ==
  [i \in 1..Cardinality({j \in 1..Len(given) : given[j]}) |-> UserCallback]

\* Commit with this.setState(newState) alone: no callback saves the state.
CommitWithoutSave ==
  /\ queue # <<>>
  /\ state' = ProcessUpdates(state, queue)
  /\ io' = <<>>
  /\ rejected' = NoError
  /\ queue' = <<>>
  /\ userCallbacks' = <<>>
  /\ thrown' = NoError
  /\ view' = NoView
  /\ UNCHANGED <<cfg, actions, record, hydrations, props, inflight>>

\* Commit after which the mapping of wrapped actions is built anew.
CommitRemappingActions ==
  /\ queue # <<>>
  /\ state' = ProcessUpdates(state, queue)
  /\ record' = Save(cfg, record, state')
  /\ io' = Callbacks(cfg, state', Len(queue)) \o UserCallbackCalls(userCallbacks)
  /\ rejected' = NoError
  /\ queue' = <<>>
  /\ userCallbacks' = <<>>
  /\ thrown' = NoError
  /\ view' = NoView
  /\ actions' = actions + 1
  /\ UNCHANGED <<cfg, hydrations, props, inflight>>

\* Commit whose callbacks save the state they closed over, the one before the
\* commit.
CommitSavingPriorState ==
  /\ queue # <<>>
  /\ state' = ProcessUpdates(state, queue)
  /\ record' = Save(cfg, record, state)
  /\ io' = Callbacks(cfg, state, Len(queue)) \o UserCallbackCalls(userCallbacks)
  /\ rejected' = NoError
  /\ queue' = <<>>
  /\ userCallbacks' = <<>>
  /\ thrown' = NoError
  /\ view' = NoView
  /\ UNCHANGED <<cfg, actions, hydrations, props, inflight>>

\* React commits the queued updates to this.state, in order, then calls the
\* callback of each.
Commit ==
  /\ queue # <<>>
  /\ state' = ProcessUpdates(state, queue)
  /\ record' = Save(cfg, record, state')
  /\ io' = Callbacks(cfg, state', Len(queue)) \o UserCallbackCalls(userCallbacks)
  /\ rejected' = NoError
  /\ queue' = <<>>
  /\ userCallbacks' = <<>>
  /\ thrown' = NoError
  /\ view' = NoView
  /\ UNCHANGED <<cfg, actions, hydrations, props, inflight>>

\* The value an Assignment sets.
AssignVals == {2}

Payloads == {Increment} \cup {Partial(k, v) : k \in Keys, v \in AssignVals}

\* What the storage may hold before the first Provider is constructed: nothing,
\* the empty string, texts JSON.parse rejects, the JSON texts of values that are
\* no object, and the JSON text of every object.
Primed ==
  {NoRecord, Record(EmptyText), Record(<<Punct("{")>>),
   Record(<<Word("undefined")>>), Record(<<Word("null")>>),
   Record(<<Word("false")>>), Record(<<NumLit(0)>>), Record(<<NumLit(1)>>),
   Record(<<StrLit("")>>)}
    \cup {Record(JSON_stringify(Obj(o)).text) : o \in Objects}

\* The stores whose actions are run: every storage, init and actions option
\* with the other options left out, and one persistent store for each
\* integrity and load option that is no constant.
RunConfigs ==
  {c \in Configs :
     /\ c.init # "factory"
     /\ c.actions \in {"mapping", "factory"}
     /\ c.deserialize = "JSON.parse"
     /\ c.load.kind \in {"identity", "migrate"}
     /\ \/ c.integrity = "default" /\ c.load.kind = "identity"
        \/ c.storage = "localStorage" /\ c.init = "object" /\ c.actions = "mapping"}

\* They start over a storage that holds nothing, a malformed text, null, or
\* an object.
Init ==
  /\ cfg \in RunConfigs
  /\ record \in {NoRecord, Record(<<Punct("{")>>), Record(<<Word("null")>>),
                 Record(JSON_stringify(Obj([version |-> 1])).text),
                 Record(JSON_stringify(Obj([counter |-> 1])).text)}
  /\ hydrations = <<>>
  /\ props = [defaultValue |-> 0]
  /\ state = Undefined
  /\ inflight = EmptyBag
  /\ queue = <<>>
  /\ userCallbacks = <<>>
  /\ actions = 0
  /\ io = <<>>
  /\ thrown = NoError
  /\ view = NoView
  /\ rejected = NoError

\* The Provider is constructed once; then its actions run.
Mount(p) == ~constructed /\ Construct(p)

Next ==
  \/ \E p \in Props : Mount(p)
  \/ \E k \in Keys, v \in AssignVals : Assignment(k, v)
  \/ IncrementAction
  \/ NoResult
  \/ \E u \in Payloads : SetterAction(u)
  \/ \E r \in BagToSet(inflight) : Resume(r)
  \/ Commit

Spec == Init /\ [][Next]_vars

\* Hydration alone: every configuration over every primed storage, and the
\* page loaded again (a new Provider over the storage the last one left).
InitHydration ==
  /\ cfg \in {c \in Configs : c.actions = "mapping"}
  /\ record \in Primed
  /\ hydrations = <<>>
  /\ props = [defaultValue |-> 0]
  /\ state = Undefined
  /\ inflight = EmptyBag
  /\ queue = <<>>
  /\ userCallbacks = <<>>
  /\ actions = 0
  /\ io = <<>>
  /\ thrown = NoError
  /\ view = NoView
  /\ rejected = NoError

NextHydration == \E p \in Props : Construct(p)

SpecHydration == InitHydration /\ [][NextHydration]_vars

\* The calls that throw during a construction: storage.getItem,
\* storage.setItem, and serialize.
StorageFaults == SUBSET {"getItem", "setItem", "serialize"}

\* What the try block comes to when storage.getItem throws or not: a throw is
\* caught as every other one is, and the state is init(props).
HydrateOver(c, rec, p, faults) ==
  IF "getItem" \in faults
  THEN [fetched |-> NoRecord, path |-> "getItem", initial |-> init(c, p)]
  ELSE Hydrate(c, rec, p)

\* The constructor ran to its end over a storage whose getItem threw or not.
Completed(p, faults, h, text) ==
  /\ state' = h.initial
  /\ hydrations' = Append(hydrations, h)
  /\ record' = Record(text)
  /\ io' = (IF "getItem" \in faults THEN <<GetItemThrows>> ELSE <<GetItem>>)
             \o <<SetItem(text)>>
  /\ props' = p
  /\ inflight' = EmptyBag
  /\ queue' = <<>>
  /\ userCallbacks' = <<>>
  /\ actions' = Len(hydrations) + 1
  /\ thrown' = NoError

\* ConstructOver with the write-back inside the try block: its throw is caught,
\* the state is init(props) and the Provider is constructed with no write.
ConstructOverCatching(p, faults) ==
  /\ cfg.storage = "localStorage"
  /\ faults # {}
  /\ Len(hydrations) < MaxConstructions
  /\ LET h == HydrateOver(cfg, record, p, faults)
         text == StoredString(serialize(cfg, h.initial))
         gets == IF "getItem" \in faults THEN <<GetItemThrows>> ELSE <<GetItem>>
     IN /\ InBounds(h.initial)
        /\ IF "serialize" \in faults \/ "setItem" \in faults
           THEN /\ state' = init(cfg, p)
                /\ hydrations' = Append(hydrations, [h EXCEPT !.initial = init(cfg, p)])
                /\ io' = gets \o (IF "serialize" \in faults THEN <<>>
                                   ELSE <<SetItemThrows(text)>>)
                /\ props' = p
                /\ inflight' = EmptyBag
                /\ queue' = <<>>
                /\ userCallbacks' = <<>>
                /\ actions' = Len(hydrations) + 1
                /\ thrown' = NoError
                /\ UNCHANGED record
           ELSE Completed(p, faults, h, text)
  /\ rejected' = NoError
  /\ view' = NoView
  /\ UNCHANGED cfg

\* new Provider(p) over a storage that throws.  storage.getItem is called in
\* the try block.  The write-back is after it: when serialize throws, or
\* storage.setItem, which then writes nothing, the constructor throws and no
\* Provider is constructed.
ConstructOver(p, faults) ==
  /\ cfg.storage = "localStorage"
  /\ faults # {}
  /\ Len(hydrations) < MaxConstructions
  /\ LET h == HydrateOver(cfg, record, p, faults)
         text == StoredString(serialize(cfg, h.initial))
         gets == IF "getItem" \in faults THEN <<GetItemThrows>> ELSE <<GetItem>>
     IN /\ InBounds(h.initial)
        /\ IF "serialize" \in faults
           THEN /\ thrown' = SerializeError
                /\ io' = gets
                /\ UNCHANGED <<record, hydrations, props, state, inflight, queue,
                               userCallbacks, actions>>
           ELSE IF "setItem" \in faults
           THEN /\ thrown' = StorageError
                /\ io' = gets \o <<SetItemThrows(text)>>
                /\ UNCHANGED <<record, hydrations, props, state, inflight, queue,
                               userCallbacks, actions>>
           ELSE Completed(p, faults, h, text)
  /\ rejected' = NoError
  /\ view' = NoView
  /\ UNCHANGED cfg

\* The persistent stores that are constructed over a storage that may throw,
\* with JSON.parse and a load that is no constant.
InitFaults ==
  /\ cfg \in {c \in Configs : /\ c.actions = "mapping"
                              /\ c.storage = "localStorage"
                              /\ c.deserialize = "JSON.parse"
                              /\ c.load.kind \in {"identity", "migrate"}}
  /\ record \in Primed
  /\ hydrations = <<>>
  /\ props = [defaultValue |-> 0]
  /\ state = Undefined
  /\ inflight = EmptyBag
  /\ queue = <<>>
  /\ userCallbacks = <<>>
  /\ actions = 0
  /\ io = <<>>
  /\ thrown = NoError
  /\ view = NoView
  /\ rejected = NoError

NextFaults ==
  \/ \E p \in Props : Construct(p)
  \/ \E p \in Props, faults \in StorageFaults : ConstructOver(p, faults)

SpecFaults == InitFaults /\ [][NextFaults]_vars

\* An async action whose promise is rejected.
RejectingAction == Call(Rejected)

\* An action that throws: the wrapper, an async function, is rejected during
\* the call.
ThrowingAction ==
  /\ constructed
  /\ io' = <<>>
  /\ rejected' = ActionError
  /\ thrown' = NoError
  /\ view' = NoView
  /\ UNCHANGED <<cfg, actions, record, hydrations, props, state, inflight,
                 queue,
                 userCallbacks>>

\* An async action of a factory that calls the injected setter and is then
\* rejected.
SetterThenReject(u) ==
  /\ constructed
  /\ cfg.actions = "factory"
  /\ IF u = Increment THEN CanIncrement ELSE CanAssign(u)
  /\ BagCardinality(inflight) < MaxInflight
  /\ setStateAndSave(u)
  /\ inflight' = inflight (+) SetToBag({Rejected})
  /\ io' = <<>>
  /\ rejected' = NoError
  /\ thrown' = NoError
  /\ view' = NoView
  /\ UNCHANGED <<cfg, actions, record, hydrations, props, state>>

\* What the constructor calls a factory with:
\* actions(this.setStateAndSave.bind(this), props).
FactoryArguments == <<"setStateAndSave", "props">>

\* The position of the parameter that the factory's actions call as setState.
SetStateParameter(c) == IF c.actions = "documentedFactory" THEN 2 ELSE 1

\* An action of the README's factory calls its setState with u and returns
\* nothing.  Calling what is no function throws a TypeError, which rejects
\* the call.
DocumentedSetterAction(u) ==
  /\ constructed
  /\ cfg.actions = "documentedFactory"
  /\ IF u = Increment THEN CanIncrement ELSE CanAssign(u)
  /\ BagCardinality(inflight) < MaxInflight
  /\ IF FactoryArguments[SetStateParameter(cfg)] = "setStateAndSave"
     THEN /\ setStateAndSave(u)
          /\ inflight' = inflight (+) SetToBag({ResolvedUndefined})
          /\ rejected' = NoError
     ELSE /\ rejected' = TypeError
          /\ UNCHANGED <<inflight, queue, userCallbacks>>
  /\ io' = <<>>
  /\ thrown' = NoError
  /\ view' = NoView
  /\ UNCHANGED <<cfg, actions, record, hydrations, props, state>>

\* An action of a factory calls the injected setter with u and a callback, as
\* the README's decrement does, and returns nothing.  The setter is
\* state => this.setState(state, ...): it has one parameter.
SetterWithCallback(u) == SetterAction(u)

\* The map functions given to the adapters: identity, the default, and
\* ({ counter }) => counter, which throws on null and undefined.
MapOpts == {"identity", "counter"}

map(f, s) ==
  IF f = "identity" THEN Return(s)
  ELSE IF s.t \in {"null", "undefined"} THEN Throw
  ELSE Return(Get(s, "counter"))

\* A component under the Provider renders, once React has committed what was
\* queued, and an adapter hands v on to it.
Render(v) ==
  /\ constructed
  /\ queue = <<>>
  /\ thrown' = NoError
  /\ view' = v
  /\ io' = <<>>
  /\ rejected' = NoError
  /\ UNCHANGED <<cfg, actions, record, hydrations, props, state, inflight,
                 queue, userCallbacks>>

\* The value of StateContext, mapped, and the value of ActionsContext.
StateAndActions(f) ==
  [what |-> "state and actions", state |-> map(f, state), actions |-> actions]

\* The value of ActionsContext.
ActionsAlone ==
  [what |-> "actions", state |-> Return(Undefined), actions |-> actions]

\* <Consumer map={f}>: (render || children)(map(state), actions).
Consumer(f) == Render(StateAndActions(f))

\* <ActionsConsumer>: (render || children)(actions).
ActionsConsumer == Render(ActionsAlone)

\* withStore(f)(Comp): a Consumer with the map f, whose render spreads the
\* mapped state and the actions into the props of Comp.
withStore(f) == Consumer(f)

\* withActions(Comp): an ActionsConsumer whose render spreads the actions.
withActions == ActionsConsumer

\* useStore(f): [map(useContext(StateContext)), useContext(ActionsContext)].
useStore(f) == Render(StateAndActions(f))

\* useActions(): useContext(ActionsContext).
useActions == Render(ActionsAlone)

\* readStore(f): the record under storageKey, deserialized and mapped; the
\* empty object, mapped, when the storage holds nothing.
readStore(c, rec, f) ==
  IF c.storage = "null" \/ ~rec.present THEN map(f, Obj(EmptyObj))
  ELSE LET d == deserialize(c, rec.text)
       IN IF d.threw THEN Throw ELSE map(f, d.v)

\* readStore is called, at any time, mounted Provider or not.
ReadStore(f) ==
  /\ thrown' = NoError
  /\ view' = [what |-> "stored state", state |-> readStore(cfg, record, f),
              actions |-> 0]
  /\ io' = (IF cfg.storage = "null" THEN <<>> ELSE <<GetItem>>)
  /\ rejected' = NoError
  /\ UNCHANGED <<cfg, actions, record, hydrations, props, state, inflight,
                 queue, userCallbacks>>

\* The stores whose calls may fail and that are read: persistent, with init
\* {counter: 0} and the default hooks.
CallConfigs ==
  {c \in Configs :
     /\ c.storage = "localStorage" /\ c.init = "object"
     /\ c.deserialize = "JSON.parse"
     /\ c.integrity = "default" /\ c.load.kind = "identity"}

InitCalls ==
  /\ cfg \in CallConfigs
  /\ record \in {NoRecord, Record(JSON_stringify(Obj([counter |-> 1])).text)}
  /\ hydrations = <<>>
  /\ props = [defaultValue |-> 0]
  /\ state = Undefined
  /\ inflight = EmptyBag
  /\ queue = <<>>
  /\ userCallbacks = <<>>
  /\ actions = 0
  /\ io = <<>>
  /\ thrown = NoError
  /\ view = NoView
  /\ rejected = NoError

\* Every way a call of a wrapped action can end, and every way to read the
\* store.
NextCalls ==
  \/ Next
  \/ RejectingAction
  \/ ThrowingAction
  \/ \E u \in Payloads : SetterThenReject(u)
  \/ \E u \in Payloads : DocumentedSetterAction(u)
  \/ \E u \in Payloads : SetterWithCallback(u)
  \/ \E f \in MapOpts : Consumer(f)
  \/ ActionsConsumer
  \/ \E f \in MapOpts : withStore(f)
  \/ withActions
  \/ \E f \in MapOpts : useStore(f)
  \/ useActions
  \/ \E f \in MapOpts : ReadStore(f)

SpecCalls == InitCalls /\ [][NextCalls]_vars

-----------------------------------------------------------------------------
(* Properties *)

\* What the storage holds once serialize(s) was written to it.
Written(s) == Record(StoredString(serialize(cfg, s)))

\* The steps of the last constructor's try block over what it fetched.
fetched == hydration.fetched
Deserialized == deserialize(cfg, fetched.text)
Checked == integrity(cfg, Deserialized.v)
Loaded == load(cfg, Deserialized.v)
DefaultState == init(cfg, props)

\* C1: once the Provider is constructed over a storage, the record under
\* storageKey is the serialized this.state in every state between two steps:
\* after the constructor, and after every commit of action results and setter
\* calls.
C1_RecordMirrorsState ==
  (constructed /\ cfg.storage = "localStorage") => record = Written(state)

\* Reached: two updates were committed in one batch and both callbacks wrote
\* the new state.
C1_Witness ==
  /\ constructed
  /\ cfg.storage = "localStorage"
  /\ state # hydration.initial
  /\ io = <<SetItem(Written(state).text), SetItem(Written(state).text)>>
  /\ record = Written(state)

\* C2: the commit of an action's partial state {k: v} leaves this.state equal
\* to the prior state with k set to v and every other key as it was, and the
\* record deserializes to that state.
C2_PartialStateIsMerged ==
  [][\A k \in Keys, v \in AssignVals :
       (queue = <<Partial(k, v)>> /\ queue' = <<>>) =>
         /\ state'.t = "object"
         /\ DOMAIN state'.o = DOMAIN OwnProps(state) \cup {k}
         /\ state'.o[k] = v
         /\ \A j \in DOMAIN OwnProps(state) \ {k} : state'.o[j] = state.o[j]
         /\ cfg.storage = "localStorage" =>
              deserialize(cfg, record'.text) = Return(state')]_vars

\* Reached: {counter: 1} was restored and an action's {version: 2} was merged
\* into it.
C2_Witness ==
  /\ constructed
  /\ hydration.initial = Obj([counter |-> 1])
  /\ state = Obj([counter |-> 1, version |-> 2])
  /\ record = Record(JSON_stringify(state).text)
  /\ io = <<SetItem(record.text)>>

\* C3 as stated: whenever a record exists that deserialize, integrity and load
\* accept, the initial state is load(deserialize(record)).
C3_AnyRecordIsRestored ==
  (/\ constructed
   /\ fetched.present
   /\ ~Deserialized.threw /\ Truthy(Deserialized.v)
   /\ ~Checked.threw /\ Truthy(Checked.v)
   /\ ~Loaded.threw /\ Truthy(Loaded.v))
    => (hydration.path = "restored" /\ hydration.initial = Loaded.v)

\* C3: whenever a record that is not the empty string exists and deserialize,
\* integrity and load accept it, the constructor takes no fallback and the
\* initial state is load(deserialize(record)).
C3_NonEmptyRecordIsRestored ==
  (/\ constructed
   /\ fetched.present /\ fetched.text # EmptyText
   /\ ~Deserialized.threw /\ Truthy(Deserialized.v)
   /\ ~Checked.threw /\ Truthy(Checked.v)
   /\ ~Loaded.threw /\ Truthy(Loaded.v))
    => (hydration.path = "restored" /\ hydration.initial = Loaded.v
        /\ state = Loaded.v)

\* Reached: {counter: 3, version: 1} was restored through the migration, not
\* the default state {counter: 0}.
C3_Witness ==
  /\ constructed
  /\ cfg.init = "object"
  /\ cfg.load.kind = "migrate"
  /\ fetched = Record(JSON_stringify(Obj([counter |-> 3, version |-> 1])).text)
  /\ state = Obj([counter |-> 3, version |-> 2])

\* C4: when the storage holds no record at construction, the initial state
\* is init applied to the Provider's props.
C4_AbsentRecordGivesDefault ==
  (constructed /\ ~fetched.present)
    => (hydration.path = "absent" /\ hydration.initial = DefaultState
        /\ state = DefaultState)

\* Reached: an empty localStorage and an init factory over props.
C4_Witness ==
  /\ constructed
  /\ cfg.storage = "localStorage"
  /\ fetched = NoRecord
  /\ cfg.init = "factory"
  /\ props.defaultValue = 1
  /\ state = Obj([counter |-> 1])

\* C5: when deserialize throws on the stored record, the initial state is the
\* default state and, right after construction, the record is the serialized
\* default state.
C5_MalformedRecordIsOverwritten ==
  (constructed /\ fetched.present /\ Deserialized.threw)
    => (state = DefaultState /\ record = Written(DefaultState))

\* Reached: the storage held the text { and now holds {"counter":0}.
C5_Witness ==
  /\ constructed
  /\ fetched = Record(<<Punct("{")>>)
  /\ hydration.path = "deserialize"
  /\ cfg.init = "object"
  /\ record = Record(JSON_stringify(Obj([counter |-> 0])).text)

\* C6: when integrity returns a falsy value or throws on the deserialized
\* record, the initial state is exactly the default state.
C6_RejectedRecordGivesDefault ==
  (/\ constructed
   /\ fetched.present
   /\ ~Deserialized.threw
   /\ Checked.threw \/ ~Truthy(Checked.v))
    => (hydration.initial = DefaultState /\ state = DefaultState)

\* Reached: integrity = s => s.version === 2 rejected {counter: 3, version: 1}
\* and nothing of it is in the state.
C6_Witness ==
  /\ constructed
  /\ cfg.integrity = "version2"
  /\ cfg.init = "object"
  /\ fetched = Record(JSON_stringify(Obj([counter |-> 3, version |-> 1])).text)
  /\ hydration.path = "integrity"
  /\ state = Obj([counter |-> 0])

\* C7: when load throws or returns a falsy value for a record that deserialize
\* and integrity accepted, the initial state is the default state.
C7_FalsyLoadGivesDefault ==
  (/\ constructed
   /\ fetched.present /\ fetched.text # EmptyText
   /\ ~Deserialized.threw /\ Truthy(Deserialized.v)
   /\ ~Checked.threw /\ Truthy(Checked.v)
   /\ Loaded.threw \/ ~Truthy(Loaded.v))
    => hydration.initial = DefaultState

\* C8: when deserialize returns a falsy value, the initial state is the
\* default state (stated for the loaders that return no constant, which C7 is
\* about).
C8_FalsyDeserializeGivesDefault ==
  (/\ constructed
   /\ cfg.load.kind # "constant"
   /\ fetched.present /\ fetched.text # EmptyText
   /\ ~Deserialized.threw /\ ~Truthy(Deserialized.v))
    => hydration.initial = DefaultState

\* C9: over a storage, on every hydration path, the constructor calls setItem
\* exactly once, with the serialized initial state, and no wrapped action runs
\* before that write.
C9_ConstructionWritesOnce ==
  [][cfg.storage = "localStorage" =>
       /\ Len(hydrations') > Len(hydrations) =>
            /\ state' = hydrations'[Len(hydrations')].initial
            /\ io' = <<GetItem, SetItem(StoredString(serialize(cfg, state')))>>
            /\ record' = Record(StoredString(serialize(cfg, state')))
       /\ (inflight' # inflight \/ queue' # queue) =>
            /\ constructed
            /\ record = Written(state)]_vars

\* Reached: the state loaded by the migration was written back by the
\* constructor's one setItem.
C9_Witness ==
  /\ constructed
  /\ hydration.path = "restored"
  /\ cfg.load.kind = "migrate"
  /\ state = Obj([version |-> 2])
  /\ io = <<GetItem, SetItem(JSON_stringify(state).text)>>

\* C10: with storage null no storage call is made and the record is left
\* alone, by the constructor and by every commit; the initial state is the one
\* an empty storage gives, and every commit merges the queued updates into
\* the state as it does over a storage.
C10_NullStorageIsInMemory ==
  [][cfg.storage = "null" =>
       /\ io' = <<>>
       /\ record' = record
       /\ Len(hydrations') > Len(hydrations) =>
            state' = Hydrate([cfg EXCEPT !.storage = "localStorage"], NoRecord, props').initial
       /\ (constructed /\ state' # state) => state' = ProcessUpdates(state, queue)]_vars

\* Reached: a store without storage committed an update and the storage
\* still holds what it held.
C10_Witness ==
  /\ cfg.storage = "null"
  /\ constructed
  /\ state # hydration.initial
  /\ record = Record(<<Punct("{")>>)
  /\ io = <<>>

\* A Provider is constructed anew, with the props of the one before it and
\* nothing done in between.
ConstructedAgain ==
  /\ constructed
  /\ Len(hydrations') = Len(hydrations) + 1
  /\ props' = props

\* The hooks hand s back: serialize and deserialize round-trip it, integrity
\* accepts it and load returns it unchanged.
HandedBack(s) ==
  /\ serialize(cfg, s).defined
  /\ serialize(cfg, s).text # EmptyText
  /\ deserialize(cfg, serialize(cfg, s).text) = Return(s)
  /\ ~integrity(cfg, s).threw /\ Truthy(integrity(cfg, s).v)
  /\ load(cfg, s) = Return(s)

\* C11 as stated: under every configuration, any load included, and over every
\* primed storage, a Provider constructed right after another one, with the
\* same props, has the same initial state (stated for the loads that return
\* no constant, which C7 is about).
C11_HydrationIsIdempotent ==
  [][(ConstructedAgain /\ cfg.load.kind # "constant") => state' = state]_vars

\* C11: a Provider constructed right after another one, with the same props,
\* has the same initial state whenever the hooks hand the first initial state
\* back: deserialize(serialize(s)) is s, integrity accepts s and load(s) is s.
C11_HandedBackStateIsRestoredAgain ==
  [][(ConstructedAgain /\ cfg.storage = "localStorage" /\ HandedBack(state))
       => (state' = state /\ record' = record
           /\ hydrations'[Len(hydrations')].fetched = Written(state)
           /\ hydrations'[Len(hydrations')].path = "restored")]_vars

\* Reached: the first Provider migrated {version: 1} and wrote {version: 2}
\* back; the second one fetched that record and restored the same state.
C11_Witness ==
  /\ Len(hydrations) = 2
  /\ cfg.load.kind = "migrate"
  /\ hydrations[1].fetched = Record(JSON_stringify(Obj([version |-> 1])).text)
  /\ hydrations[1].initial = Obj([version |-> 2])
  /\ hydrations[2].fetched = Record(JSON_stringify(Obj([version |-> 2])).text)
  /\ hydrations[2].path = "restored"
  /\ hydrations[2].initial = hydrations[1].initial

\* The pending partial states that set the counter.
CounterAssignments == {u \in Pending : ~u.fn /\ "counter" \in DOMAIN u.o}

\* This step is a call of increment: its updater is in flight, or was handed
\* to the setter.
IncrementInvoked ==
  /\ BagCardinality(inflight') = BagCardinality(inflight) + 1
  /\ \/ CopiesIn(Resolved(Increment), inflight')
          = CopiesIn(Resolved(Increment), inflight) + 1
     \/ queue' = Append(queue, Increment)

\* The increments in the queue.
QueuedIncrements == Cardinality({i \in 1..Len(queue) : queue[i] = Increment})

\* C12: while increments overlap (and no action sets the counter), whatever
\* the order in which they resolve and commit, the counter plus the number of
\* increments not yet committed changes by one at each call of increment and
\* at no other step: each updater runs on the state at its commit and none is
\* lost.  A commit of n queued increments leaves the counter n higher, and the
\* record deserializes to the committed state.
C12_NoIncrementIsLost ==
  [][(/\ constructed
      /\ Get(state, "counter") # Undefined
      /\ CounterAssignments = {} /\ CounterAssignments' = {})
       => /\ Get(state', "counter").n + PendingIncrements'
               = Get(state, "counter").n + PendingIncrements
                   + (IF IncrementInvoked THEN 1 ELSE 0)
          /\ (queue # <<>> /\ queue' = <<>>) =>
               /\ Get(state', "counter").n = Get(state, "counter").n + QueuedIncrements
               /\ cfg.storage = "localStorage" =>
                    deserialize(cfg, record'.text) = Return(state')]_vars

\* Reached: over {counter: 1}, two calls of increment overlapped and both
\* wrappers resumed; their two updaters are queued, to be run on the state at
\* the commit.
C12_Witness ==
  /\ constructed
  /\ cfg.actions = "mapping"
  /\ state = Obj([counter |-> 1])
  /\ inflight = EmptyBag
  /\ queue = <<Increment, Increment>>
  /\ record = Record(JSON_stringify(state).text)

\* The store of the README's counter: init {counter: 0} over a localStorage
\* that held nothing.
CounterStore ==
  /\ cfg.storage = "localStorage"
  /\ cfg.init = "object"
  /\ IF constructed THEN hydrations[1].fetched = NoRecord ELSE record = NoRecord

\* C13: the counter store starts as {counter: 0}, and each call of increment
\* made while nothing else is pending runs to its commit in three steps that
\* leave the counter one higher in this.state and in the record: the call
\* leaves state and record alone, the resumed wrapper queues the updater, and
\* the commit applies it and writes the result.  So n calls in a row leave
\* {counter: n} in memory and in the deserialized record.
C13_SequentialIncrementsCount ==
  [][CounterStore =>
       /\ Len(hydrations') > Len(hydrations) =>
            /\ state' = Obj([counter |-> 0])
            /\ deserialize(cfg, record'.text) = Return(state')
       /\ (inflight = EmptyBag /\ inflight' = SetToBag({Resolved(Increment)})) =>
            (state' = state /\ record' = record /\ queue' = queue)
       /\ (inflight = SetToBag({Resolved(Increment)}) /\ inflight' = EmptyBag
           /\ queue = <<>>) =>
            (state' = state /\ record' = record /\ queue' = <<Increment>>)
       /\ (queue = <<Increment>> /\ queue' = <<>>) =>
            /\ state' = Obj(Assign(OwnProps(state),
                                   [counter |-> Get(state, "counter").n + 1]))
            /\ deserialize(cfg, record'.text) = Return(state')
            /\ io' = <<SetItem(record'.text)>>]_vars

\* Reached: the counter store started as {counter: 0} over an empty storage
\* and the commit of an increment just wrote {counter: 3}.
C13_Witness ==
  /\ constructed
  /\ CounterStore
  /\ hydration.initial = Obj([counter |-> 0])
  /\ state = Obj([counter |-> 3])
  /\ inflight = EmptyBag
  /\ queue = <<>>
  /\ io = <<SetItem(JSON_stringify(Obj([counter |-> 3])).text)>>
  /\ deserialize(cfg, record.text) = Return(Obj([counter |-> 3]))

\* This step is the call of an action that will be rejected.
FailingCall ==
  CopiesIn(Rejected, inflight') = CopiesIn(Rejected, inflight) + 1

\* This step is the rejection of the promise an action returned.
Rejection ==
  CopiesIn(Rejected, inflight') = CopiesIn(Rejected, inflight) - 1

\* C14 as stated: a call whose action throws or is rejected leaves this.state
\* and the record as they were before the call, so it hands React no update
\* either.
C14_FailedCallLeavesStateAsBefore ==
  [][(FailingCall \/ Rejection \/ rejected' # NoError)
       => (state' = state /\ record' = record /\ queue' = queue)]_vars

\* C14: the store catches nothing: when the promise of an action is rejected,
\* or the action throws, the call of the wrapped action is rejected with that
\* error; the wrapper saves nothing for that call: the step leaves this.state,
\* the record and the queue of updates alone and calls no storage.  The call
\* of a failing action changes this.state and the record by nothing but the
\* updates the action handed to the injected setter before it failed.
C14_FailureReachesTheCaller ==
  [][/\ Rejection => rejected' = ActionError
     /\ rejected' # NoError =>
          (state' = state /\ record' = record /\ queue' = queue /\ io' = <<>>)
     /\ FailingCall =>
          /\ state' = state /\ record' = record /\ io' = <<>>
          /\ cfg.actions = "mapping" => queue' = queue]_vars

\* Reached: the promise of the one action that was called has just been
\* rejected; the state restored at construction and its record are as they
\* were.
C14_Witness ==
  /\ constructed
  /\ rejected = ActionError
  /\ hydration.path = "restored"
  /\ state = hydration.initial
  /\ record = Written(state)
  /\ inflight = EmptyBag
  /\ queue = <<>>
  /\ io = <<>>

\* C15: an action that returns undefined (or a promise of it) and calls no
\* setter changes nothing: neither its call nor the resumed wrapper changes
\* this.state or the record, queues an update or calls the storage, and the
\* call is not rejected.
C15_UndefinedResultChangesNothing ==
  [][/\ (/\ CopiesIn(ResolvedUndefined, inflight')
               = CopiesIn(ResolvedUndefined, inflight) + 1
         /\ cfg.actions = "mapping") =>
          (state' = state /\ record' = record /\ queue' = queue /\ io' = <<>>)
     /\ CopiesIn(ResolvedUndefined, inflight')
          = CopiesIn(ResolvedUndefined, inflight) - 1 =>
          /\ state' = state /\ record' = record /\ queue' = queue
          /\ io' = <<>>
          /\ rejected' = NoError]_vars

\* Reached: over the restored {counter: 1}, an action that returns undefined
\* was called and its wrapper awaits; the state and the record are as the
\* constructor left them.
C15_Witness ==
  /\ constructed
  /\ cfg.actions = "mapping"
  /\ cfg.storage = "localStorage"
  /\ inflight = SetToBag({ResolvedUndefined})
  /\ state = Obj([counter |-> 1])
  /\ state = hydration.initial
  /\ record = Written(state)
  /\ io = <<>>

\* C16: the factory receives the props first and the setter second, so that
\* an action of (props, setState) => ({ inc() { setState(u) } }) hands u to
\* the setter, to be committed and saved, and its call is not rejected.
C16_DocumentedFactoryUpdates ==
  [][\A u \in Payloads :
       DocumentedSetterAction(u) =>
         (queue' = Append(queue, u) /\ rejected' = NoError)]_vars

\* C17: a call of the injected setter with a callback hands the callback to
\* React with the update, so that it is invoked once, after the commit of
\* that update.
C17_SetterCallbackIsInvoked ==
  [][\A u \in Payloads :
       SetterWithCallback(u) => userCallbacks' = Append(userCallbacks, TRUE)]_vars

\* C18: when no init is configured and the constructor falls back to the
\* default state, the initial state is {} and the record written back is
\* serialize({}).
C18_DefaultInitIsEmptyObject ==
  (constructed /\ cfg.init = "default" /\ hydration.path # "restored")
    => /\ state = Obj(EmptyObj)
       /\ cfg.storage = "localStorage" => record = Written(Obj(EmptyObj))

UpdateHandedOver ==
  \E u \in Payloads :
    /\ queue' = Append(queue, u)
    /\ \/ /\ BagIn(Resolved(u), inflight)
          /\ inflight' = inflight (-) SetToBag({Resolved(u)})
       \/ /\ cfg.actions = "factory"
          /\ BagCardinality(inflight') = BagCardinality(inflight) + 1

\* C20: a step in which an adapter reads (Consumer, ActionsConsumer,
\* withStore, withActions, useStore, useActions, with any map) leaves
\* this.state, the record, this.actions and the pending calls and updates
\* alone, calls no storage, and hands on the actions of the constructor and,
\* for the state adapters, the mapped this.state.  Once the Provider is
\* constructed, this.actions stays the mapping the constructor created, across
\* every commit; this.state changes only by the commit of queued updates, and
\* an update is queued only by the result of a wrapped action or by a call of
\* the injected setter.
C20_AdaptersAreViews ==
  [][/\ view'.what \in {"state and actions", "actions"} =>
          /\ state' = state /\ record' = record /\ actions' = actions
          /\ queue' = queue /\ inflight' = inflight
          /\ io' = <<>>
          /\ view'.actions = actions
          /\ view'.what = "state and actions" =>
               view'.state \in {map(f, state) : f \in MapOpts}
     /\ constructed =>
          /\ actions' = actions
          /\ state' # state =>
               (queue # <<>> /\ queue' = <<>> /\ state' = ProcessUpdates(state, queue))
          /\ (queue' # queue /\ queue' # <<>>) => UpdateHandedOver]_vars

\* Reached: after the commit of an increment over {counter: 0}, an adapter with
\* the map ({ counter }) => counter has just handed on 1 and the actions the
\* constructor created.
C20_Witness ==
  /\ constructed
  /\ hydration.initial = Obj([counter |-> 0])
  /\ state = Obj([counter |-> 1])
  /\ actions = 1
  /\ view = [what |-> "state and actions", state |-> Return(Num(1)),
             actions |-> 1]
  /\ record = Written(state)

\* C21: at construction a throw of storage.getItem is absorbed: the
\* constructor goes on with the default state, writes it back and the
\* Provider is constructed.  A throw of storage.setItem or of serialize in the
\* write-back is not caught: the constructor throws it, no Provider is
\* constructed, nothing is written and the record is as it was.
C21_StorageFailuresAtConstruction ==
  [][/\ (io' # <<>> /\ Head(io') = GetItemThrows /\ thrown' = NoError) =>
          /\ hydrations' = Append(hydrations,
                                  [fetched |-> NoRecord, path |-> "getItem",
                                   initial |-> init(cfg, props')])
          /\ state' = init(cfg, props')
          /\ record' = Record(StoredString(serialize(cfg, state')))
          /\ io' = <<GetItemThrows, SetItem(record'.text)>>
     /\ (io' # <<>> /\ io'[Len(io')].op = "setItem throws") =>
          thrown' = StorageError
     /\ (Len(io') = 1 /\ io'[1].op \in {"getItem", "getItem throws"}) =>
          thrown' = SerializeError
     /\ thrown' # NoError =>
          /\ record' = record
          /\ hydrations' = hydrations
          /\ state' = state /\ actions' = actions
          /\ \A i \in 1..Len(io') : io'[i].op # "setItem"]_vars

\* Reached: over a storage that held the text {, getItem threw and was
\* absorbed, the write-back of the default state {counter: 0} threw, and the
\* constructor threw: no Provider, and the record is still {.
C21_Witness ==
  /\ ~constructed
  /\ cfg.init = "object"
  /\ thrown = StorageError
  /\ io = <<GetItemThrows,
            SetItemThrows(JSON_stringify(Obj([counter |-> 0])).text)>>
  /\ record = Record(<<Punct("{")>>)

====
